---- MODULE Spec2Model ----
(***************************************************************************)
(* FlatMapImpl (fuzztest/internal/domains/flat_map_impl.h): the dependent  *)
(* domain combinator.  A combinator owns a flat mapper and a tuple of      *)
(* input domains; the output domain is rebuilt from the input corpora on   *)
(* every call.  The caller owns one corpus value and calls the domain      *)
(* operations on it.                                                       *)
(***************************************************************************)
EXTENDS Integers, Sequences, FiniteSets, TLC

VARIABLES
  self,     \* the combinator under test: flat_mapper_, input_domains_, seeds_
  order,    \* order in which this build evaluates the arguments of a call
  val,      \* the corpus value the caller owns: <<output, input_1 .. input_N>>
  origin,   \* how val was created: "none", "Init", "ParseCorpus", "RoundTrip"
  last,     \* the call that has just returned (arguments, result, call trace),
            \* [op |-> "idle"] once the caller has taken the result
  first     \* the input values from which Init derived the output domain of
            \* val, <<>> if val was not made that way

vars == <<self, order, val, origin, last, first>>

\* Largest integer that appears in a serialized tree handed to ParseCorpus.
MaxInt == 2
\* One draw from the bit generator is a number in 0..MaxDraw.
MaxDraw == 2
\* Length of the bit stream handed to one call.
MaxDraws == 4
\* Longest sequence of booleans in a serialized tree handed to ParseCorpus.
MaxLen == 3

(***************************************************************************)
(* The bit generator, with the trace of the calls made on sub-domains.     *)
(***************************************************************************)
BitGen(s) == [s |-> s, pos |-> 1, calls |-> <<>>]

Draw(g) == IF g.pos <= Len(g.s) THEN g.s[g.pos] ELSE 0

Advance(g) == [g EXCEPT !.pos = @ + 1]

\* The combinator named `owner` calls `op` on its sub-domain i (0: the output
\* domain, i >= 1: input domain i); op "flat_mapper_" is a call of the mapper.
Call(g, owner, i, op) == [g EXCEPT !.calls = Append(@, <<owner, i, op>>)]

\* absl::Bernoulli(prng, p): one draw; the draw 0 stands for the event of
\* probability p.
Bernoulli(g) == [b |-> Draw(g) = 0, g |-> Advance(g)]

(***************************************************************************)
(* Serialized tree objects (IRObject): an integer scalar, another scalar,  *)
(* or a sequence of child slots.                                           *)
(***************************************************************************)
IRInt(n) == [kind |-> "int", i |-> n, subs |-> <<>>]

IRStr == [kind |-> "str", i |-> 0, subs |-> <<>>]

IRSubs(s) == [kind |-> "subs", i |-> 0, subs |-> s]

(***************************************************************************)
(* absl::Status and Prefix.                                                *)
(***************************************************************************)
OkStatus == [ok |-> TRUE, msg |-> <<>>]

InvalidArgumentError(m) == [ok |-> FALSE, msg |-> <<m>>]

\* Prefix(status, prefix): an OK status is returned as it is, an error gets
\* "prefix >> " put in front of its message.
Prefix(s, prefix) == IF s.ok THEN s ELSE [ok |-> FALSE, msg |-> <<prefix>> \o s.msg]

kInputLabel == <<"Invalid value for FlatMap()-ed domain">>

\* A status, or the result of a parse, together with the calls the operation
\* made on the way to it, and the same without the calls.
Traced(r, calls) == [f \in (DOMAIN r) \cup {"calls"} |->
                       IF f = "calls" THEN calls ELSE r[f]]

Untraced(r) == [f \in (DOMAIN r) \ {"calls"} |-> r[f]]

\* A tuple of n components, not yet set.
RECURSIVE Zeros(_)
Zeros(n) == IF n = 0 THEN <<>> ELSE Append(Zeros(n - 1), 0)

\* The tuple <<f[1], ..., f[n]>>.
RECURSIVE MakeTuple(_, _)
MakeTuple(f, n) == IF n = 0 THEN <<>> ELSE Append(MakeTuple(f, n - 1), f[n])

(***************************************************************************)
(* Domains.                                                                *)
(***************************************************************************)
InRange(lo, hi) == [kind |-> "InRange", min_ |-> lo, max_ |-> hi]

FlatMap(mapper, inputs, seeds) ==
  [kind |-> "FlatMap", flat_mapper_ |-> mapper, input_domains_ |-> inputs,
   seeds_ |-> seeds]

\* The domain of the single value x.
Just(x) == [kind |-> "Just", value |-> x]

\* The domain of the sequences of n booleans.
BoolVector(n) == [kind |-> "BoolVector", size |-> n]

\* The flat mappers of the combinators below; x is the tuple of input values.
flat_mapper_(name, x) ==
  CASE name = "range" -> InRange(x[1], x[1] + x[2])
    [] name = "nest"  -> FlatMap("upto", <<InRange(0, x[1])>>, <<>>)
    [] name = "upto"  -> InRange(0, x[1])
    [] name = "bools" -> BoolVector(x[1])

\* Two inputs, a leaf output domain, one seed.
Simple == FlatMap("range", <<InRange(0, 1), InRange(1, 2)>>, <<<<1, 0, 1>>>>)

\* One input; the output domain is itself a flat-map combinator.
Nested == FlatMap("nest", <<InRange(1, 2)>>, <<>>)

Combinators == {Simple, Nested}

\* The input is always 3, the output a sequence of that many booleans.
FixedVec == FlatMap("bools", <<Just(3)>>, <<>>)

\* The input is 1 or 2, the output a sequence of that many booleans.
SizedVec == FlatMap("bools", <<InRange(1, 2)>>, <<>>)

VecCombinators == {FixedVec, SizedVec}

(***************************************************************************)
(* The leaf domain InRange: the corpus value is the integer itself.        *)
(***************************************************************************)
InRangeInit(d, g) ==
  [v |-> d.min_ + (Draw(g) % (d.max_ - d.min_ + 1)), g |-> Advance(g)]

InRangeMutate(d, v, g, only_shrink) ==
  IF v < d.min_ \/ v > d.max_ THEN InRangeInit(d, g)
  ELSE IF only_shrink
    THEN [v |-> d.min_ + (Draw(g) % (v - d.min_ + 1)), g |-> Advance(g)]
    ELSE InRangeInit(d, g)

InRangeGetValue(d, v) == v

InRangeParseCorpus(d, obj) ==
  IF obj.kind = "int" THEN [has |-> TRUE, v |-> obj.i] ELSE [has |-> FALSE, v |-> 0]

InRangeSerializeCorpus(d, v) == IRInt(v)

InRangeValidateCorpusValue(d, v) ==
  IF d.min_ <= v /\ v <= d.max_ THEN OkStatus
  ELSE InvalidArgumentError(<<"The value is not InRange", v, d.min_, d.max_>>)

(***************************************************************************)
(* The leaf domain Just: the corpus value is the index 0 of the one value; *)
(* no operation draws from the bit generator.                              *)
(***************************************************************************)
JustInit(d, g) == [v |-> 0, g |-> g]

JustMutate(d, v, g, only_shrink) == [v |-> v, g |-> g]

JustGetValue(d, v) == d.value

JustParseCorpus(d, obj) ==
  IF obj.kind = "int" THEN [has |-> TRUE, v |-> obj.i] ELSE [has |-> FALSE, v |-> 0]

JustSerializeCorpus(d, v) == IRInt(v)

JustValidateCorpusValue(d, v) ==
  IF v = 0 THEN OkStatus
  ELSE InvalidArgumentError(<<"Invalid ElementOf() value", v, 0, 0>>)

(***************************************************************************)
(* The leaf domain BoolVector: the corpus value is the sequence itself.    *)
(***************************************************************************)
RECURSIVE BoolVectorInit(_, _)
BoolVectorInit(d, g) ==
  IF d.size = 0 THEN [v |-> <<>>, g |-> g]
  ELSE LET r == BoolVectorInit([d EXCEPT !.size = @ - 1], g)
       IN [v |-> Append(r.v, Draw(r.g) % 2 = 1), g |-> Advance(r.g)]

\* One element, chosen by a draw, gets a new value from the next draw; when
\* shrinking it can only go from TRUE to FALSE.
BoolVectorMutate(d, v, g, only_shrink) ==
  IF Len(v) # d.size THEN BoolVectorInit(d, g)
  ELSE IF d.size = 0 THEN [v |-> v, g |-> g]
  ELSE LET k == 1 + (Draw(g) % d.size)
           b == Draw(Advance(g)) % 2 = 1
       IN [v |-> [v EXCEPT ![k] = IF only_shrink THEN @ /\ b ELSE b],
           g |-> Advance(Advance(g))]

BoolVectorGetValue(d, v) == v

BoolVectorParseCorpus(d, obj) ==
  IF obj.kind # "subs" \/ \E k \in 1..Len(obj.subs) : obj.subs[k].kind # "int"
  THEN [has |-> FALSE, v |-> <<>>]
  ELSE [has |-> TRUE,
        v |-> MakeTuple([k \in 1..Len(obj.subs) |-> obj.subs[k].i # 0],
                        Len(obj.subs))]

BoolVectorSerializeCorpus(d, v) ==
  IRSubs(MakeTuple([k \in 1..Len(v) |-> IRInt(IF v[k] THEN 1 ELSE 0)], Len(v)))

BoolVectorValidateCorpusValue(d, v) ==
  IF Len(v) = d.size THEN OkStatus
  ELSE InvalidArgumentError(<<"Invalid size", Len(v), d.size, d.size>>)

(***************************************************************************)
(* FlatMapImpl.                                                            *)
(***************************************************************************)
RECURSIVE DomainInit(_, _), DomainMutate(_, _, _, _), DomainGetValue(_, _),
          DomainParseCorpus(_, _), DomainSerializeCorpus(_, _),
          DomainValidateCorpusValue(_, _)

NumInputs(d) == Len(d.input_domains_)

\* The order in which the arguments of one call are evaluated: the language
\* leaves it to the compiler, which takes them left to right or right to left.
ArgOrder(n) ==
  IF order = "ltr" THEN MakeTuple([i \in 1..n |-> i], n)
  ELSE MakeTuple([i \in 1..n |-> n + 1 - i], n)

\* The values of the input corpora input_corpus[1..N].
InputValues(d, input_corpus) ==
  [i \in 1..NumInputs(d) |->
     DomainGetValue(d.input_domains_[i], input_corpus[i])]

\* GetOutputDomain that keeps the output domain Init derived.
GetOutputDomain_Cached(d, v) ==
  IF d = self /\ first # <<>> THEN flat_mapper_(d.flat_mapper_, first)
  ELSE flat_mapper_(d.flat_mapper_,
                    [i \in 1..NumInputs(d) |->
                       DomainGetValue(d.input_domains_[i], v[i + 1])])

GetOutputDomain(d, v) ==
  flat_mapper_(d.flat_mapper_,
               [i \in 1..NumInputs(d) |->
                  DomainGetValue(d.input_domains_[i], v[i + 1])])

\* DomainBase::MaybeGetRandomSeed: no draw without seeds; else a coin, and on
\* success one more draw for the offset of the seed.
MaybeGetRandomSeed(d, g) ==
  IF Len(d.seeds_) = 0 THEN [has |-> FALSE, v |-> <<>>, g |-> g]
  ELSE IF ~Bernoulli(g).b THEN [has |-> FALSE, v |-> <<>>, g |-> Advance(g)]
  ELSE [has |-> TRUE,
        v |-> d.seeds_[1 + (Draw(Advance(g)) % Len(d.seeds_))],
        g |-> Advance(Advance(g))]

\* std::make_tuple(input_domains.Init(prng)...): one Init per input domain,
\* taken in the order idx; acc maps the indices done so far to their corpus.
RECURSIVE InitInputs(_, _, _, _, _)
InitInputs(d, idx, k, g, acc) ==
  IF k > Len(idx) THEN [v |-> acc, g |-> g]
  ELSE LET i == idx[k]
           r == DomainInit(d.input_domains_[i],
                           Call(g, d.flat_mapper_, i, "Init"))
       IN InitInputs(d, idx, k + 1, r.g, [acc EXCEPT ![i] = r.v])

\* Init that does not look at the seeds.
FlatMapInit_IgnoresSeed(d, g) ==
  LET input_corpus == InitInputs(d, ArgOrder(NumInputs(d)), 1, g,
                                 Zeros(NumInputs(d)))
      output_domain == flat_mapper_(d.flat_mapper_,
                                    InputValues(d, input_corpus.v))
      output_corpus ==
        DomainInit(output_domain,
                   Call(Call(input_corpus.g, d.flat_mapper_, 0, "flat_mapper_"),
                        d.flat_mapper_, 0, "Init"))
  IN [v |-> <<output_corpus.v>> \o input_corpus.v, g |-> output_corpus.g]

FlatMapInit(d, g) ==
  LET seed == MaybeGetRandomSeed(d, g) IN
  IF seed.has THEN [v |-> seed.v, g |-> seed.g]
  ELSE
    LET input_corpus == InitInputs(d, ArgOrder(NumInputs(d)), 1, seed.g,
                                   Zeros(NumInputs(d)))
        output_domain == flat_mapper_(d.flat_mapper_,
                                      InputValues(d, input_corpus.v))
        output_corpus ==
          DomainInit(output_domain,
                     Call(Call(input_corpus.g, d.flat_mapper_, 0, "flat_mapper_"),
                          d.flat_mapper_, 0, "Init"))
    IN [v |-> <<output_corpus.v>> \o input_corpus.v, g |-> output_corpus.g]

\* The fold over the input domains of Mutate, in declared order.
RECURSIVE MutateInputs(_, _, _, _, _)
MutateInputs(d, v, i, g, only_shrink) ==
  IF i > NumInputs(d) THEN [v |-> v, g |-> g]
  ELSE LET r == DomainMutate(d.input_domains_[i], v[i + 1],
                             Call(g, d.flat_mapper_, i, "Mutate"), only_shrink)
       IN MutateInputs(d, [v EXCEPT ![i + 1] = r.v], i + 1, r.g, only_shrink)

\* Mutate that keeps the old output corpus after mutating the inputs.
FlatMapMutate_KeepsOutput(d, v, g, only_shrink) ==
  LET coin == IF only_shrink THEN [b |-> FALSE, g |-> g] ELSE Bernoulli(g)
      mutate_inputs == ~only_shrink /\ coin.b
  IN IF mutate_inputs
     THEN MutateInputs(d, v, 1, coin.g, only_shrink)
     ELSE LET r == DomainMutate(GetOutputDomain(d, v), v[1],
                                Call(Call(coin.g, d.flat_mapper_, 0, "flat_mapper_"),
                                     d.flat_mapper_, 0, "Mutate"),
                                only_shrink)
          IN [v |-> [v EXCEPT ![1] = r.v], g |-> r.g]

\* Mutate that re-initialises the output from the output domain of the
\* inputs as they were before their mutation.
FlatMapMutate_StaleDomain(d, v, g, only_shrink) ==
  LET coin == IF only_shrink THEN [b |-> FALSE, g |-> g] ELSE Bernoulli(g)
      mutate_inputs == ~only_shrink /\ coin.b
  IN IF mutate_inputs
     THEN LET mi == MutateInputs(d, v, 1, coin.g, only_shrink)
              r == DomainInit(GetOutputDomain(d, v),
                              Call(Call(mi.g, d.flat_mapper_, 0, "flat_mapper_"),
                                   d.flat_mapper_, 0, "Init"))
          IN [v |-> [mi.v EXCEPT ![1] = r.v], g |-> r.g]
     ELSE LET r == DomainMutate(GetOutputDomain(d, v), v[1],
                                Call(Call(coin.g, d.flat_mapper_, 0, "flat_mapper_"),
                                     d.flat_mapper_, 0, "Mutate"),
                                only_shrink)
          IN [v |-> [v EXCEPT ![1] = r.v], g |-> r.g]

\* Mutate that draws the input-mutation coin when shrinking too.
FlatMapMutate_ShrinkMutatesInputs(d, v, g, only_shrink) ==
  LET coin == Bernoulli(g)
      mutate_inputs == coin.b
  IN IF mutate_inputs
     THEN LET mi == MutateInputs(d, v, 1, coin.g, only_shrink)
              r == DomainInit(GetOutputDomain(d, mi.v),
                              Call(Call(mi.g, d.flat_mapper_, 0, "flat_mapper_"),
                                   d.flat_mapper_, 0, "Init"))
          IN [v |-> [mi.v EXCEPT ![1] = r.v], g |-> r.g]
     ELSE LET r == DomainMutate(GetOutputDomain(d, v), v[1],
                                Call(Call(coin.g, d.flat_mapper_, 0, "flat_mapper_"),
                                     d.flat_mapper_, 0, "Mutate"),
                                only_shrink)
          IN [v |-> [v EXCEPT ![1] = r.v], g |-> r.g]

\* Mutate that mutates the old output corpus after mutating the inputs.
FlatMapMutate_MutatesOutput(d, v, g, only_shrink) ==
  LET coin == IF only_shrink THEN [b |-> FALSE, g |-> g] ELSE Bernoulli(g)
      mutate_inputs == ~only_shrink /\ coin.b
      mi == IF mutate_inputs THEN MutateInputs(d, v, 1, coin.g, only_shrink)
            ELSE [v |-> v, g |-> coin.g]
      r == DomainMutate(GetOutputDomain(d, mi.v), mi.v[1],
                        Call(Call(mi.g, d.flat_mapper_, 0, "flat_mapper_"),
                             d.flat_mapper_, 0, "Mutate"),
                        only_shrink)
  IN [v |-> [mi.v EXCEPT ![1] = r.v], g |-> r.g]

\* Mutate that re-initialises the output before it mutates the inputs.
FlatMapMutate_ReinitBeforeInputs(d, v, g, only_shrink) ==
  LET coin == IF only_shrink THEN [b |-> FALSE, g |-> g] ELSE Bernoulli(g)
      mutate_inputs == ~only_shrink /\ coin.b
  IN IF mutate_inputs
     THEN LET r == DomainInit(GetOutputDomain(d, v),
                              Call(Call(coin.g, d.flat_mapper_, 0, "flat_mapper_"),
                                   d.flat_mapper_, 0, "Init"))
          IN MutateInputs(d, [v EXCEPT ![1] = r.v], 1, r.g, only_shrink)
     ELSE LET r == DomainMutate(GetOutputDomain(d, v), v[1],
                                Call(Call(coin.g, d.flat_mapper_, 0, "flat_mapper_"),
                                     d.flat_mapper_, 0, "Mutate"),
                                only_shrink)
          IN [v |-> [v EXCEPT ![1] = r.v], g |-> r.g]

\* Mutate that draws the coin and mutates the inputs whatever it shows.
FlatMapMutate_IgnoresCoin(d, v, g, only_shrink) ==
  LET coin == IF only_shrink THEN [b |-> FALSE, g |-> g] ELSE Bernoulli(g)
      mutate_inputs == ~only_shrink
  IN IF mutate_inputs
     THEN LET mi == MutateInputs(d, v, 1, coin.g, only_shrink)
              r == DomainInit(GetOutputDomain(d, mi.v),
                              Call(Call(mi.g, d.flat_mapper_, 0, "flat_mapper_"),
                                   d.flat_mapper_, 0, "Init"))
          IN [v |-> [mi.v EXCEPT ![1] = r.v], g |-> r.g]
     ELSE LET r == DomainMutate(GetOutputDomain(d, v), v[1],
                                Call(Call(coin.g, d.flat_mapper_, 0, "flat_mapper_"),
                                     d.flat_mapper_, 0, "Mutate"),
                                only_shrink)
          IN [v |-> [v EXCEPT ![1] = r.v], g |-> r.g]

FlatMapMutate(d, v, g, only_shrink) ==
  LET coin == IF only_shrink THEN [b |-> FALSE, g |-> g] ELSE Bernoulli(g)
      mutate_inputs == ~only_shrink /\ coin.b
  IN IF mutate_inputs
     THEN LET mi == MutateInputs(d, v, 1, coin.g, only_shrink)
              r == DomainInit(GetOutputDomain(d, mi.v),
                              Call(Call(mi.g, d.flat_mapper_, 0, "flat_mapper_"),
                                   d.flat_mapper_, 0, "Init"))
          IN [v |-> [mi.v EXCEPT ![1] = r.v], g |-> r.g]
     ELSE LET r == DomainMutate(GetOutputDomain(d, v), v[1],
                                Call(Call(coin.g, d.flat_mapper_, 0, "flat_mapper_"),
                                     d.flat_mapper_, 0, "Mutate"),
                                only_shrink)
          IN [v |-> [v EXCEPT ![1] = r.v], g |-> r.g]

\* GetValue that returns the value of the first input.
FlatMapGetValue_OfInput(d, v) == DomainGetValue(d.input_domains_[1], v[2])

FlatMapGetValue(d, v) == DomainGetValue(GetOutputDomain(d, v), v[1])

\* FromValue that answers with a corpus value.
FlatMapFromValue_Inverts(d, x) == [has |-> TRUE, v |-> <<x>>]

FlatMapFromValue(d, x) == [has |-> FALSE, v |-> <<>>]

\* ParseWithDomainTuple(domains, obj, skip): obj must have exactly
\* skip + |domains| child slots; slot skip + i is parsed by domain i.
ParseWithDomainTuple(domains, obj, skip) ==
  IF obj.kind # "subs" \/ Len(obj.subs) # Len(domains) + skip
  THEN [has |-> FALSE, v |-> <<>>]
  ELSE LET opts == [i \in 1..Len(domains) |->
                      DomainParseCorpus(domains[i], obj.subs[i + skip])]
       IN IF \E i \in 1..Len(domains) : ~opts[i].has
          THEN [has |-> FALSE, v |-> <<>>]
          ELSE [has |-> TRUE,
                v |-> MakeTuple([i \in 1..Len(domains) |-> opts[i].v],
                                Len(domains))]

\* ParseCorpus that parses the output corpus from slot 1.
FlatMapParseCorpus_WrongSlot(d, obj) ==
  LET input_corpus == ParseWithDomainTuple(d.input_domains_, obj, 1)
      parsed == << <<d.flat_mapper_, 1, "ParseWithDomainTuple">> >>
  IN
  IF ~input_corpus.has THEN Traced([has |-> FALSE, v |-> <<>>], parsed)
  ELSE LET output_domain == flat_mapper_(d.flat_mapper_,
                                         InputValues(d, input_corpus.v))
           output_corpus == DomainParseCorpus(output_domain, obj.subs[2])
           calls == parsed \o << <<d.flat_mapper_, 0, "flat_mapper_">>,
                                 <<d.flat_mapper_, 0, "ParseCorpus">> >>
       IN IF ~output_corpus.has THEN Traced([has |-> FALSE, v |-> <<>>], calls)
          ELSE Traced([has |-> TRUE, v |-> <<output_corpus.v>> \o input_corpus.v],
                      calls)

\* ParseCorpus that does not test the parse of slot 0.
FlatMapParseCorpus_PartialResult(d, obj) ==
  LET input_corpus == ParseWithDomainTuple(d.input_domains_, obj, 1)
      parsed == << <<d.flat_mapper_, 1, "ParseWithDomainTuple">> >>
  IN
  IF ~input_corpus.has THEN Traced([has |-> FALSE, v |-> <<>>], parsed)
  ELSE LET output_domain == flat_mapper_(d.flat_mapper_,
                                         InputValues(d, input_corpus.v))
           output_corpus == DomainParseCorpus(output_domain, obj.subs[1])
           calls == parsed \o << <<d.flat_mapper_, 0, "flat_mapper_">>,
                                 <<d.flat_mapper_, 0, "ParseCorpus">> >>
       IN Traced([has |-> TRUE, v |-> <<output_corpus.v>> \o input_corpus.v],
                 calls)

\* ParseCorpus that derives the output domain before it tests the parse of the
\* inputs.
FlatMapParseCorpus_DerivesFirst(d, obj) ==
  LET input_corpus == ParseWithDomainTuple(d.input_domains_, obj, 1)
      calls == << <<d.flat_mapper_, 1, "ParseWithDomainTuple">>,
                  <<d.flat_mapper_, 0, "flat_mapper_">>,
                  <<d.flat_mapper_, 0, "ParseCorpus">> >>
  IN
  IF ~input_corpus.has THEN Traced([has |-> FALSE, v |-> <<>>], calls)
  ELSE LET output_domain == flat_mapper_(d.flat_mapper_,
                                         InputValues(d, input_corpus.v))
           output_corpus == DomainParseCorpus(output_domain, obj.subs[1])
       IN IF ~output_corpus.has THEN Traced([has |-> FALSE, v |-> <<>>], calls)
          ELSE Traced([has |-> TRUE, v |-> <<output_corpus.v>> \o input_corpus.v],
                      calls)

FlatMapParseCorpus(d, obj) ==
  LET input_corpus == ParseWithDomainTuple(d.input_domains_, obj, 1)
      parsed == << <<d.flat_mapper_, 1, "ParseWithDomainTuple">> >>
  IN
  IF ~input_corpus.has THEN Traced([has |-> FALSE, v |-> <<>>], parsed)
  ELSE LET output_domain == flat_mapper_(d.flat_mapper_,
                                         InputValues(d, input_corpus.v))
           output_corpus == DomainParseCorpus(output_domain, obj.subs[1])
           calls == parsed \o << <<d.flat_mapper_, 0, "flat_mapper_">>,
                                 <<d.flat_mapper_, 0, "ParseCorpus">> >>
       IN IF ~output_corpus.has THEN Traced([has |-> FALSE, v |-> <<>>], calls)
          ELSE Traced([has |-> TRUE, v |-> <<output_corpus.v>> \o input_corpus.v],
                      calls)

\* SerializeWithDomainTuple(domains, v): slot i is domain i's serialization
\* of component i.
SerializeWithDomainTuple(domains, v) ==
  IRSubs(MakeTuple([i \in 1..Len(domains) |->
                      DomainSerializeCorpus(domains[i], v[i])],
                   Len(domains)))

\* SerializeCorpus that puts the inputs before the output.
FlatMapSerializeCorpus_InputsFirst(d, v) ==
  SerializeWithDomainTuple(d.input_domains_ \o <<GetOutputDomain(d, v)>>,
                           Tail(v) \o <<v[1]>>)

FlatMapSerializeCorpus(d, v) ==
  SerializeWithDomainTuple(<<GetOutputDomain(d, v)>> \o d.input_domains_, v)

\* The fold of ValidateCorpusValue without the test that stops it at the first
\* failure.
RECURSIVE ValidateInputs_NoStop(_, _, _, _)
ValidateInputs_NoStop(d, corpus_value, i, input_values_validity) ==
  IF i > NumInputs(d) THEN input_values_validity
  ELSE ValidateInputs_NoStop(d, corpus_value, i + 1,
         Traced(Prefix(DomainValidateCorpusValue(d.input_domains_[i],
                                                 corpus_value[i + 1]),
                       kInputLabel),
                Append(input_values_validity.calls,
                       <<d.flat_mapper_, i, "ValidateCorpusValue">>)))

\* The fold of ValidateCorpusValue without the label.
RECURSIVE ValidateInputs_NoLabel(_, _, _, _)
ValidateInputs_NoLabel(d, corpus_value, i, input_values_validity) ==
  IF i > NumInputs(d) THEN input_values_validity
  ELSE ValidateInputs_NoLabel(d, corpus_value, i + 1,
         IF ~input_values_validity.ok THEN input_values_validity
         ELSE Traced(DomainValidateCorpusValue(d.input_domains_[i],
                                               corpus_value[i + 1]),
                     Append(input_values_validity.calls,
                            <<d.flat_mapper_, i, "ValidateCorpusValue">>)))

\* The fold over the input domains of ValidateCorpusValue, in declared order.
RECURSIVE ValidateInputs(_, _, _, _)
ValidateInputs(d, corpus_value, i, input_values_validity) ==
  IF i > NumInputs(d) THEN input_values_validity
  ELSE ValidateInputs(d, corpus_value, i + 1,
         IF ~input_values_validity.ok THEN input_values_validity
         ELSE Traced(Prefix(DomainValidateCorpusValue(d.input_domains_[i],
                                                      corpus_value[i + 1]),
                            kInputLabel),
                     Append(input_values_validity.calls,
                            <<d.flat_mapper_, i, "ValidateCorpusValue">>)))

\* ValidateCorpusValue that stops after the inputs.
FlatMapValidateCorpusValue_SkipsOutput(d, corpus_value) ==
  ValidateInputs(d, corpus_value, 1, Traced(OkStatus, <<>>))

\* ValidateCorpusValue that derives the output domain before it looks at the
\* status of the inputs.
FlatMapValidateCorpusValue_DerivesFirst(d, corpus_value) ==
  LET input_values_validity ==
        ValidateInputs(d, corpus_value, 1, Traced(OkStatus, <<>>))
      calls == input_values_validity.calls \o
                 << <<d.flat_mapper_, 0, "flat_mapper_">> >>
  IN IF ~input_values_validity.ok THEN Traced(input_values_validity, calls)
     ELSE Traced(DomainValidateCorpusValue(GetOutputDomain(d, corpus_value),
                                           corpus_value[1]),
                 Append(calls, <<d.flat_mapper_, 0, "ValidateCorpusValue">>))

FlatMapValidateCorpusValue(d, corpus_value) ==
  LET input_values_validity ==
        ValidateInputs(d, corpus_value, 1, Traced(OkStatus, <<>>))
  IN IF ~input_values_validity.ok THEN input_values_validity
     ELSE Traced(DomainValidateCorpusValue(GetOutputDomain(d, corpus_value),
                                           corpus_value[1]),
                 input_values_validity.calls \o
                   << <<d.flat_mapper_, 0, "flat_mapper_">>,
                      <<d.flat_mapper_, 0, "ValidateCorpusValue">> >>)

(***************************************************************************)
(* The domain capability: a call on a domain goes to its implementation.   *)
(***************************************************************************)
DomainInit(d, g) ==
  CASE d.kind = "FlatMap"    -> FlatMapInit(d, g)
    [] d.kind = "InRange"    -> InRangeInit(d, g)
    [] d.kind = "Just"       -> JustInit(d, g)
    [] d.kind = "BoolVector" -> BoolVectorInit(d, g)

DomainMutate(d, v, g, only_shrink) ==
  CASE d.kind = "FlatMap"    -> FlatMapMutate(d, v, g, only_shrink)
    [] d.kind = "InRange"    -> InRangeMutate(d, v, g, only_shrink)
    [] d.kind = "Just"       -> JustMutate(d, v, g, only_shrink)
    [] d.kind = "BoolVector" -> BoolVectorMutate(d, v, g, only_shrink)

DomainGetValue(d, v) ==
  CASE d.kind = "FlatMap"    -> FlatMapGetValue(d, v)
    [] d.kind = "InRange"    -> InRangeGetValue(d, v)
    [] d.kind = "Just"       -> JustGetValue(d, v)
    [] d.kind = "BoolVector" -> BoolVectorGetValue(d, v)

DomainParseCorpus(d, obj) ==
  CASE d.kind = "FlatMap"    -> Untraced(FlatMapParseCorpus(d, obj))
    [] d.kind = "InRange"    -> InRangeParseCorpus(d, obj)
    [] d.kind = "Just"       -> JustParseCorpus(d, obj)
    [] d.kind = "BoolVector" -> BoolVectorParseCorpus(d, obj)

DomainSerializeCorpus(d, v) ==
  CASE d.kind = "FlatMap"    -> FlatMapSerializeCorpus(d, v)
    [] d.kind = "InRange"    -> InRangeSerializeCorpus(d, v)
    [] d.kind = "Just"       -> JustSerializeCorpus(d, v)
    [] d.kind = "BoolVector" -> BoolVectorSerializeCorpus(d, v)

DomainValidateCorpusValue(d, v) ==
  CASE d.kind = "FlatMap"    -> Untraced(FlatMapValidateCorpusValue(d, v))
    [] d.kind = "InRange"    -> InRangeValidateCorpusValue(d, v)
    [] d.kind = "Just"       -> JustValidateCorpusValue(d, v)
    [] d.kind = "BoolVector" -> BoolVectorValidateCorpusValue(d, v)

(***************************************************************************)
(* The inputs of the calls.                                                *)
(***************************************************************************)
Streams == [1..MaxDraws -> 0..MaxDraw]

\* The draws a call consumed from its stream.
Consumed(s, g) ==
  SubSeq(s, 1, IF g.pos - 1 <= Len(s) THEN g.pos - 1 ELSE Len(s))

\* Every value of the corpus type of d with integers in 0..MaxInt.
RECURSIVE CorpusShapes(_), InputShapes(_, _)
CorpusShapes(d) ==
  IF d.kind \in {"InRange", "Just"} THEN 0..MaxInt
  ELSE IF d.kind = "BoolVector"
  THEN UNION {[1..n -> BOOLEAN] : n \in 0..MaxLen}
  ELSE UNION {{<<o>> \o ins :
                 o \in CorpusShapes(flat_mapper_(d.flat_mapper_,
                                                 InputValues(d, ins)))} :
              ins \in InputShapes(d.input_domains_, Len(d.input_domains_))}

InputShapes(ds, k) ==
  IF k = 0 THEN {<<>>}
  ELSE {Append(t, x) : t \in InputShapes(ds, k - 1), x \in CorpusShapes(ds[k])}

\* A tree with one defect: a scalar of the wrong kind, a slot missing, a slot
\* too many, or a defect in one child.
RECURSIVE Corrupt(_)
Corrupt(obj) ==
  {IRStr} \cup
  (IF obj.kind = "subs"
   THEN {IRSubs(Append(obj.subs, IRInt(0)))} \cup
        (IF Len(obj.subs) = 0 THEN {}
         ELSE {IRSubs(SubSeq(obj.subs, 1, Len(obj.subs) - 1))}) \cup
        UNION {{IRSubs([obj.subs EXCEPT ![k] = c]) : c \in Corrupt(obj.subs[k])} :
               k \in 1..Len(obj.subs)}
   ELSE {IRSubs(<<>>)})

\* The trees handed to ParseCorpus: the well-formed ones and their defects.
ParseInputs(d) ==
  LET wf == {DomainSerializeCorpus(d, v) : v \in CorpusShapes(d)}
  IN wf \cup UNION {Corrupt(t) : t \in wf}

(***************************************************************************)
(* The calls of the owner of the corpus value.                             *)
(***************************************************************************)
Init ==
  /\ self \in Combinators
  /\ order \in {"ltr", "rtl"}
  /\ val = <<>>
  /\ origin = "none"
  /\ last = [op |-> "idle"]
  /\ first = <<>>

\* The input values of corpus value v.
InputValuesOf(v) == MakeTuple(InputValues(self, Tail(v)), NumInputs(self))

MapperIn(calls) ==
  \E k \in 1..Len(calls) : calls[k] = <<self.flat_mapper_, 0, "flat_mapper_">>

\* A corpus value is created by Init or by ParseCorpus.  The state after
\* either does not depend on the state before, so creating a value a second
\* time reaches no state that the first creation does not reach.
CallInit ==
  /\ last.op = "idle"
  /\ origin = "none"
  /\ \E s \in Streams :
    LET r == FlatMapInit(self, BitGen(s)) IN
    /\ val' = r.v
    /\ origin' = "Init"
    /\ last' = [op |-> "Init", draws |-> Consumed(s, r.g), calls |-> r.g.calls]
    /\ first' = IF MapperIn(r.g.calls) THEN InputValuesOf(r.v) ELSE <<>>
    /\ UNCHANGED <<self, order>>

CallMutate ==
  /\ last.op = "idle"
  /\ origin # "none"
  /\ \E s \in Streams, only_shrink \in BOOLEAN :
       LET r == FlatMapMutate(self, val, BitGen(s), only_shrink) IN
       /\ val' = r.v
       /\ last' = [op |-> "Mutate", before |-> val, only_shrink |-> only_shrink,
                   draws |-> Consumed(s, r.g), calls |-> r.g.calls]
       /\ UNCHANGED <<self, order, origin, first>>

CallGetValue ==
  /\ last.op = "idle"
  /\ origin # "none"
  /\ last' = [op |-> "GetValue", value |-> FlatMapGetValue(self, val)]
  /\ UNCHANGED <<self, order, val, origin, first>>

CallFromValue ==
  /\ last.op = "idle"
  /\ \E x \in (IF self \in VecCombinators THEN [1..MaxLen -> BOOLEAN]
              ELSE 0..MaxInt) \cup
           (IF origin = "none" THEN {} ELSE {FlatMapGetValue(self, val)}) :
    /\ last' = [op |-> "FromValue", x |-> x,
                has |-> FlatMapFromValue(self, x).has]
    /\ UNCHANGED <<self, order, val, origin, first>>

CallSerializeCorpus ==
  /\ last.op = "idle"
  /\ origin # "none"
  /\ last' = [op |-> "SerializeCorpus",
              obj |-> FlatMapSerializeCorpus(self, val),
              generated |-> origin \in {"Init", "RoundTrip"}]
  /\ UNCHANGED <<self, order, val, origin, first>>

\* ParseCorpus of any tree, or of the tree SerializeCorpus has just returned.
CallParseCorpus ==
  \E obj \in (IF last.op = "idle" /\ origin = "none"
              THEN ParseInputs(self) ELSE {}) \cup
             (IF last.op = "SerializeCorpus" THEN {last.obj} ELSE {}) :
    LET p == FlatMapParseCorpus(self, obj)
        roundtrip == /\ last.op = "SerializeCorpus"
                     /\ last.generated
                     /\ obj = last.obj
    IN /\ last' = [op |-> "ParseCorpus", obj |-> obj, has |-> p.has,
                   roundtrip |-> roundtrip,
                   from |-> IF roundtrip THEN val ELSE <<>>,
                   calls |-> p.calls]
       /\ IF p.has
          THEN /\ val' = p.v
               /\ origin' = IF roundtrip THEN "RoundTrip" ELSE "ParseCorpus"
          ELSE UNCHANGED <<val, origin>>
       /\ UNCHANGED <<self, order, first>>

CallValidateCorpusValue ==
  /\ last.op = "idle"
  /\ origin # "none"
  /\ LET r == FlatMapValidateCorpusValue(self, val) IN
     last' = [op |-> "ValidateCorpusValue", status |-> Untraced(r),
              calls |-> r.calls]
  /\ UNCHANGED <<self, order, val, origin, first>>

\* The caller takes the result of the call; only the corpus value stays.
Return ==
  /\ last.op # "idle"
  /\ last' = [op |-> "idle"]
  /\ UNCHANGED <<self, order, val, origin, first>>

Next ==
  \/ CallInit
  \/ CallMutate
  \/ CallGetValue
  \/ CallFromValue
  \/ CallParseCorpus
  \/ CallSerializeCorpus
  \/ CallValidateCorpusValue
  \/ Return

Spec == Init /\ [][Next]_vars

\* The same calls on the combinators whose output is a sequence of booleans.
InitVec ==
  /\ self \in VecCombinators
  /\ order \in {"ltr", "rtl"}
  /\ val = <<>>
  /\ origin = "none"
  /\ last = [op |-> "idle"]
  /\ first = <<>>

SpecVec == InitVec /\ [][Next]_vars

(***************************************************************************)
(* Vocabulary of the properties.                                           *)
(***************************************************************************)
Valid(v) == FlatMapValidateCorpusValue(self, v).ok

InputStatus(i, v) == DomainValidateCorpusValue(self.input_domains_[i], v[i + 1])

OutputStatus(v) == DomainValidateCorpusValue(GetOutputDomain(self, v), v[1])

InvalidInputs(v) == {i \in 1..NumInputs(self) : ~InputStatus(i, v).ok}

FirstOf(S) == CHOOSE i \in S : \A j \in S : i <= j

\* The calls the combinator under test made itself, without those made
\* inside its sub-domains.
OwnCalls == SelectSeq(last.calls, LAMBDA e : e[1] = self.flat_mapper_)

\* The bit generator of the last call, set to its k-th draw.
ReplayAt(k) == [s |-> last.draws, pos |-> k, calls |-> <<>>]

Generated == origin \in {"Init", "RoundTrip"}

TookInputBranch ==
  /\ last.op = "Mutate"
  /\ ~last.only_shrink
  /\ last.draws[1] = 0

(***************************************************************************)
(* C1.  As stated: every corpus value reachable through Init, ParseCorpus   *)
(* and Mutate has an output_corpus that the output domain derived from its *)
(* inputs accepts.  ParseCorpus checks the structure of the tree only, so  *)
(* this fails for a value parsed from an arbitrary tree.                   *)
(***************************************************************************)
C1_AnyReachableOutputValid ==
  origin # "none" => OutputStatus(val).ok

\* C1 as amended: a corpus value created by Init, or by ParseCorpus from the
\* tree SerializeCorpus returned for such a value, and then changed by any
\* number of Mutate calls, has an output_corpus that the output domain derived
\* from its inputs accepts.
C1_GeneratedOutputValid ==
  Generated => OutputStatus(val).ok

C1_Witness ==
  /\ origin = "Init"
  /\ last.op = "Mutate"
  /\ Tail(val) # Tail(last.before)
  /\ OutputStatus(val).ok
  /\ ~DomainValidateCorpusValue(GetOutputDomain(self, val), last.before[1]).ok

(***************************************************************************)
(* C2.  Validity preservation: Mutate of a corpus value that               *)
(* ValidateCorpusValue accepts yields one that it accepts, for either      *)
(* value of only_shrink and either branch.                                 *)
(***************************************************************************)
C2_MutatePreservesValidity ==
  (last.op = "Mutate" /\ Valid(last.before)) => Valid(val)

C2_Witness ==
  /\ last.op = "Mutate"
  /\ origin = "ParseCorpus"
  /\ Valid(last.before)
  /\ val # last.before
  /\ Valid(val)

(***************************************************************************)
(* C3.  Shrinking isolates the inputs: Mutate with only_shrink of a valid  *)
(* corpus value leaves every input corpus as it was and calls Mutate on no *)
(* input domain.                                                           *)
(***************************************************************************)
C3_ShrinkKeepsInputs ==
  (last.op = "Mutate" /\ last.only_shrink /\ Valid(last.before)) =>
    /\ Tail(val) = Tail(last.before)
    /\ \A k \in 1..Len(last.calls) :
         ~(last.calls[k][2] >= 1 /\ last.calls[k][3] = "Mutate")

C3_Witness ==
  /\ last.op = "Mutate"
  /\ last.only_shrink
  /\ Valid(last.before)
  /\ val[1] # last.before[1]
  /\ Len(last.draws) >= 1

(***************************************************************************)
(* C4.  Round trip: for a corpus value made by Init and Mutate,            *)
(* ParseCorpus(SerializeCorpus(v)) succeeds, is valid and has the value of *)
(* v.                                                                      *)
(***************************************************************************)
C4_RoundTrip ==
  (last.op = "ParseCorpus" /\ last.roundtrip) =>
    /\ last.has
    /\ Valid(val)
    /\ FlatMapGetValue(self, val) = FlatMapGetValue(self, last.from)

C4_Witness ==
  /\ last.op = "ParseCorpus"
  /\ last.roundtrip
  /\ last.has
  /\ self = Simple
  /\ val[1] # val[2]
  /\ FlatMapGetValue(self, val) = val[1]

(***************************************************************************)
(* C5.  In the input-mutation branch of Mutate the combinator calls Mutate *)
(* on every input domain in declared order, then the mapper, then Init of  *)
(* the output domain, and nothing else; every input corpus is the result   *)
(* of its domain's Mutate, and output_corpus is the Init draw of the       *)
(* output domain derived from the new inputs, whatever it was before.      *)
(***************************************************************************)
C5_InputBranchReinitialisesOutput ==
  TookInputBranch =>
    LET n == NumInputs(self) IN
    /\ OwnCalls = MakeTuple(
         [k \in 1..(n + 2) |->
            IF k <= n THEN <<self.flat_mapper_, k, "Mutate">>
            ELSE IF k = n + 1 THEN <<self.flat_mapper_, 0, "flat_mapper_">>
            ELSE <<self.flat_mapper_, 0, "Init">>], n + 2)
    /\ \A i \in 1..n :
         val[i + 1] = DomainMutate(self.input_domains_[i], last.before[i + 1],
                                   ReplayAt(i + 1), FALSE).v
    /\ val[1] = DomainInit(GetOutputDomain(self, val), ReplayAt(n + 2)).v

C5_Witness ==
  /\ TookInputBranch
  /\ self = Simple
  /\ val[2] # last.before[2]
  /\ val[3] # last.before[3]
  /\ val[1] # last.before[1]

(***************************************************************************)
(* C6.  FromValue returns no value for every value, the values GetValue    *)
(* returns included.                                                       *)
(***************************************************************************)
C6_FromValueAbsent ==
  last.op = "FromValue" => ~last.has

C6_Witness ==
  /\ last.op = "FromValue"
  /\ Generated
  /\ last.x = FlatMapGetValue(self, val)
  /\ ~last.has

(***************************************************************************)
(* C7.  Validation ordering: when inputs and the output are invalid,       *)
(* ValidateCorpusValue returns the labelled failure of the invalid input   *)
(* of lowest index.                                                        *)
(***************************************************************************)
C7_FirstInvalidInputReported ==
  (/\ last.op = "ValidateCorpusValue"
   /\ InvalidInputs(val) # {}
   /\ ~OutputStatus(val).ok) =>
    last.status = Prefix(InputStatus(FirstOf(InvalidInputs(val)), val),
                         kInputLabel)

C7_Witness ==
  /\ last.op = "ValidateCorpusValue"
  /\ InvalidInputs(val) = {1, 2}
  /\ ~OutputStatus(val).ok
  /\ InputStatus(1, val) # InputStatus(2, val)

(***************************************************************************)
(* C8.  ValidateCorpusValue succeeds exactly when every input corpus is    *)
(* valid for its domain and output_corpus is valid for the derived output  *)
(* domain; with valid inputs its result is the output domain's result.     *)
(***************************************************************************)
C8_ValidateExact ==
  last.op = "ValidateCorpusValue" =>
    /\ last.status.ok <=> (InvalidInputs(val) = {} /\ OutputStatus(val).ok)
    /\ InvalidInputs(val) = {} => last.status = OutputStatus(val)

C8_Witness ==
  /\ last.op = "ValidateCorpusValue"
  /\ InvalidInputs(val) = {}
  /\ ~last.status.ok

(***************************************************************************)
(* C9.  ParseCorpus returns no value when a slot of 0..N is missing, when  *)
(* an input slot does not parse, or when slot 0 does not parse against the *)
(* output domain derived from the parsed inputs; when it returns a value,  *)
(* every slot parsed and the value is (slot 0, slot 1, ..., slot N).       *)
(***************************************************************************)
SlotsPresent(obj) ==
  obj.kind = "subs" /\ Len(obj.subs) >= NumInputs(self) + 1

InputParse(i, obj) == DomainParseCorpus(self.input_domains_[i], obj.subs[i + 1])

InputsParse(obj) == \A i \in 1..NumInputs(self) : InputParse(i, obj).has

ParsedInputs(obj) ==
  MakeTuple([i \in 1..NumInputs(self) |-> InputParse(i, obj).v],
            NumInputs(self))

OutputParse(obj) ==
  DomainParseCorpus(flat_mapper_(self.flat_mapper_,
                                 InputValues(self, ParsedInputs(obj))),
                    obj.subs[1])

AllSlotsParse(obj) ==
  IF ~SlotsPresent(obj) THEN FALSE
  ELSE IF ~InputsParse(obj) THEN FALSE
  ELSE OutputParse(obj).has

C9_ParseAllOrNothing ==
  last.op = "ParseCorpus" =>
    /\ ~AllSlotsParse(last.obj) => ~last.has
    /\ last.has =>
         /\ AllSlotsParse(last.obj)
         /\ val = <<OutputParse(last.obj).v>> \o ParsedInputs(last.obj)

C9_Witness ==
  /\ last.op = "ParseCorpus"
  /\ SlotsPresent(last.obj)
  /\ InputsParse(last.obj)
  /\ ~OutputParse(last.obj).has
  /\ ~last.has

(***************************************************************************)
(* C10.  As stated: a failure of ValidateCorpusValue carries the input     *)
(* label exactly when it comes from an input component, for every output   *)
(* domain.  The failure of the output component is returned as the output  *)
(* domain made it, so this fails when the output domain is a flat-map      *)
(* combinator with an invalid input of its own.                            *)
(***************************************************************************)
HasInputLabel(st) == ~st.ok /\ st.msg[1] = kInputLabel

C10_LabelTellsInputFromOutput ==
  (last.op = "ValidateCorpusValue" /\ ~last.status.ok) =>
    (HasInputLabel(last.status) <=> InvalidInputs(val) # {})

\* C10 as amended: a failure of an input component carries the input label; a
\* failure of the output component is returned as the output domain reports
\* it, with nothing added, so it starts with the input label only if the
\* output domain's own report does (never for a leaf output domain).
C10_InputLabelledOutputAsReported ==
  (last.op = "ValidateCorpusValue" /\ ~last.status.ok) =>
    /\ InvalidInputs(val) # {} => HasInputLabel(last.status)
    /\ InvalidInputs(val) = {} => last.status = OutputStatus(val)
    /\ (InvalidInputs(val) = {} /\ GetOutputDomain(self, val).kind # "FlatMap")
         => ~HasInputLabel(last.status)

C10_Witness ==
  /\ last.op = "ValidateCorpusValue"
  /\ self = Nested
  /\ InvalidInputs(val) = {}
  /\ HasInputLabel(last.status)

(***************************************************************************)
(* C11.  With the single input fixed to 3 and the mapper n -> sequences of *)
(* n booleans, the value of every corpus made by Init and Mutate is a      *)
(* sequence of 3 booleans, and ParseCorpus of its serialization gives the  *)
(* same sequence.  With any input domain, the length of the value is the   *)
(* value of the input corpus.                                              *)
(***************************************************************************)
IsBoolSeq(x, n) == Len(x) = n /\ \A k \in 1..n : x[k] \in BOOLEAN

C11_LengthFollowsInput ==
  /\ (Generated /\ self = FixedVec) => IsBoolSeq(FlatMapGetValue(self, val), 3)
  /\ Generated =>
       Len(FlatMapGetValue(self, val)) =
         DomainGetValue(self.input_domains_[1], val[2])
  /\ (last.op = "ParseCorpus" /\ last.roundtrip) =>
       /\ last.has
       /\ FlatMapGetValue(self, val) = FlatMapGetValue(self, last.from)

C11_Witness ==
  /\ self = FixedVec
  /\ last.op = "ParseCorpus"
  /\ last.roundtrip
  /\ last.has
  /\ FlatMapGetValue(self, val) = <<TRUE, FALSE, TRUE>>

\* A corpus of the sized combinator whose input, and with it the length of the
\* value, has just been changed by Mutate.
C11_WitnessResized ==
  /\ self = SizedVec
  /\ TookInputBranch
  /\ val[2] # last.before[2]
  /\ Len(FlatMapGetValue(self, val)) # Len(last.before[1])

(***************************************************************************)
(* C12.  When Init returns no seed it draws for input domain 1, then 2,    *)
(* ..., then N, and only then for the output domain derived from those     *)
(* inputs; the corpus is built from exactly those draws.  The Init calls   *)
(* of the inputs are the arguments of one call of std::make_tuple, so a    *)
(* build that evaluates arguments right to left draws for input N first.   *)
(***************************************************************************)
SeedReturned == last.op = "Init" /\ MaybeGetRandomSeed(self, ReplayAt(1)).has

\* The position of the first draw of Init after the seed coin.
FirstInitDraw == IF Len(self.seeds_) = 0 THEN 1 ELSE 2

C12_InitDrawsInDeclaredOrder ==
  (last.op = "Init" /\ ~SeedReturned) =>
    LET n == NumInputs(self) IN
    /\ OwnCalls = MakeTuple(
         [k \in 1..(n + 2) |->
            IF k <= n THEN <<self.flat_mapper_, k, "Init">>
            ELSE IF k = n + 1 THEN <<self.flat_mapper_, 0, "flat_mapper_">>
            ELSE <<self.flat_mapper_, 0, "Init">>], n + 2)
    /\ \A i \in 1..n :
         val[i + 1] = DomainInit(self.input_domains_[i],
                                 ReplayAt(FirstInitDraw + i - 1)).v
    /\ val[1] = DomainInit(GetOutputDomain(self, val),
                           ReplayAt(FirstInitDraw + n)).v

(***************************************************************************)
(* C13.  When the seed mechanism supplies a corpus value, Init returns     *)
(* that value as it is and calls no Init of an input domain, no mapper and *)
(* no Init of an output domain.                                            *)
(***************************************************************************)
C13_SeedShortCircuit ==
  SeedReturned =>
    /\ val = MaybeGetRandomSeed(self, ReplayAt(1)).v
    /\ last.calls = <<>>
    /\ Len(last.draws) = 2

C13_Witness ==
  /\ SeedReturned
  /\ self = Simple
  /\ val = <<1, 0, 1>>
  /\ last.calls = <<>>

\* The output domain the mapper gives for the inputs of corpus value v.
DerivedDomain(v) == flat_mapper_(self.flat_mapper_, InputValues(self, Tail(v)))

(***************************************************************************)
(* C15.  GetValue, SerializeCorpus and ValidateCorpusValue leave the       *)
(* corpus value they are given as it is, and GetValue returns the value    *)
(* the output domain derived from the inputs gives for output_corpus.      *)
(***************************************************************************)
ReadOnlyOps == {"GetValue", "SerializeCorpus", "ValidateCorpusValue"}

C15_ReadOnly ==
  /\ [][(last'.op \in ReadOnlyOps) => (val' = val /\ origin' = origin)]_vars
  /\ [](last.op = "GetValue" =>
          last.value = DomainGetValue(DerivedDomain(val), val[1]))

C15_Witness ==
  /\ last.op = "GetValue"
  /\ self = Nested
  /\ val = <<<<1, 2>>, 2>>
  /\ last.value = 1

(***************************************************************************)
(* C16.  A Mutate that does not take the input branch leaves every input   *)
(* corpus value as it was and calls, after the mapper, only the Mutate of  *)
(* the output domain on output_corpus.  So every Mutate either leaves the  *)
(* inputs as they were or re-initialises the output.                       *)
(***************************************************************************)
C16_OutputBranchKeepsInputs ==
  /\ (last.op = "Mutate" /\ ~TookInputBranch) =>
       /\ Tail(val) = Tail(last.before)
       /\ OwnCalls = << <<self.flat_mapper_, 0, "flat_mapper_">>,
                        <<self.flat_mapper_, 0, "Mutate">> >>
       /\ val[1] = DomainMutate(DerivedDomain(last.before), last.before[1],
                                ReplayAt(IF last.only_shrink THEN 1 ELSE 2),
                                last.only_shrink).v
  /\ last.op = "Mutate" =>
       \/ Tail(val) = Tail(last.before)
       \/ OwnCalls[Len(OwnCalls)] = <<self.flat_mapper_, 0, "Init">>

C16_Witness ==
  /\ last.op = "Mutate"
  /\ ~last.only_shrink
  /\ last.draws[1] # 0
  /\ self = Simple
  /\ val[1] # last.before[1]
  /\ Tail(val) = Tail(last.before)

(***************************************************************************)
(* C17.  The tree SerializeCorpus returns has exactly N+1 slots: slot 0 is *)
(* the output domain's serialization of output_corpus and slot i is input  *)
(* domain i's serialization of input corpus i.                             *)
(***************************************************************************)
C17_SerializedSlots ==
  last.op = "SerializeCorpus" =>
    /\ last.obj.kind = "subs"
    /\ Len(last.obj.subs) = NumInputs(self) + 1
    /\ last.obj.subs[1] = DomainSerializeCorpus(DerivedDomain(val), val[1])
    /\ \A i \in 1..NumInputs(self) :
         last.obj.subs[i + 1] =
           DomainSerializeCorpus(self.input_domains_[i], val[i + 1])

C17_Witness ==
  /\ last.op = "SerializeCorpus"
  /\ self = Simple
  /\ val = <<2, 1, 1>>
  /\ last.obj = IRSubs(<<IRInt(2), IRInt(1), IRInt(1)>>)

(***************************************************************************)
(* C19.  ValidateCorpusValue validates the inputs in declared order up to  *)
(* the first that fails, validates none after it and then does not call    *)
(* the mapper; ParseCorpus does not call the mapper when the parse of the  *)
(* inputs fails.  In both operations the mapper is called only after every *)
(* input has passed the operation's check.                                 *)
(***************************************************************************)
MapperCalled == MapperIn(OwnCalls)

\* The inputs ValidateCorpusValue validated, in the order of the calls.
ValidatedInputs ==
  LET c == SelectSeq(OwnCalls,
                     LAMBDA e : e[2] >= 1 /\ e[3] = "ValidateCorpusValue")
  IN MakeTuple([k \in 1..Len(c) |-> c[k][2]], Len(c))

InputSubParseOk(obj) ==
  /\ obj.kind = "subs"
  /\ Len(obj.subs) = NumInputs(self) + 1
  /\ InputsParse(obj)

C19_NoMapperAfterInputFailure ==
  /\ last.op = "ValidateCorpusValue" =>
       LET bad == InvalidInputs(val)
           upto == IF bad = {} THEN NumInputs(self) ELSE FirstOf(bad)
       IN /\ ValidatedInputs = MakeTuple([k \in 1..upto |-> k], upto)
          /\ MapperCalled <=> bad = {}
  /\ last.op = "ParseCorpus" => (MapperCalled <=> InputSubParseOk(last.obj))

C19_Witness ==
  /\ last.op = "ValidateCorpusValue"
  /\ self = Simple
  /\ InvalidInputs(val) = {1, 2}
  /\ OwnCalls = << <<"range", 1, "ValidateCorpusValue">> >>
  /\ ~last.status.ok

C19_WitnessParse ==
  /\ last.op = "ParseCorpus"
  /\ self = Simple
  /\ last.obj.kind = "subs" /\ Len(last.obj.subs) = 3
  /\ ~InputsParse(last.obj)
  /\ ~MapperCalled
  /\ ~last.has

(***************************************************************************)
(* C18.  No output domain is kept from one call to the next: what Mutate,  *)
(* GetValue, SerializeCorpus and ValidateCorpusValue return is given by    *)
(* the domain derived from the inputs of the corpus value of that call,    *)
(* and what ParseCorpus returns by the domain derived from the inputs of   *)
(* the tree of that call, whatever domain Init derived.                    *)
(***************************************************************************)
\* The output domain a combinator would hold had it kept the one of Init.
FirstDomain == flat_mapper_(self.flat_mapper_, first)

C18_DomainDerivedPerCall ==
  /\ last.op = "GetValue" =>
       last.value = DomainGetValue(DerivedDomain(val), val[1])
  /\ (last.op = "ValidateCorpusValue" /\ InvalidInputs(val) = {}) =>
       last.status = DomainValidateCorpusValue(DerivedDomain(val), val[1])
  /\ last.op = "SerializeCorpus" =>
       last.obj.subs[1] = DomainSerializeCorpus(DerivedDomain(val), val[1])
  /\ (last.op = "Mutate" /\ ~TookInputBranch) =>
       val[1] = DomainMutate(DerivedDomain(last.before), last.before[1],
                             ReplayAt(IF last.only_shrink THEN 1 ELSE 2),
                             last.only_shrink).v
  /\ TookInputBranch =>
       val[1] = DomainInit(DerivedDomain(val),
                           ReplayAt(NumInputs(self) + 2)).v
  /\ (last.op = "ParseCorpus" /\ InputSubParseOk(last.obj)) =>
       last.has = OutputParse(last.obj).has

\* A call after a Mutate has changed the inputs: the domain Init derived is
\* not the domain of this call, and the two disagree on the corpus value.
C18_Witness ==
  /\ last.op = "ValidateCorpusValue"
  /\ first # <<>>
  /\ first # InputValuesOf(val)
  /\ InvalidInputs(val) = {}
  /\ last.status.ok
  /\ ~DomainValidateCorpusValue(FirstDomain, val[1]).ok

====
